---------------------------- MODULE Spec2Model ----------------------------
(***************************************************************************)
(* Model of serial.c: the interrupt driven receive and transmit ring       *)
(* buffers of the serial driver.                                           *)
(*                                                                         *)
(* One foreground thread of control calls serialWrite, serialRead,         *)
(* serialAnyAvailable and serialFlush.  Two interrupt handlers,            *)
(* USART_RX_vect and USART_UDRE_vect, preempt the foreground between any   *)
(* two of its memory accesses and run to completion (handlers do not       *)
(* nest).  A foreground function is therefore a sequence of steps, one per *)
(* access to a variable that a handler also accesses, with pc naming the   *)
(* next step; a handler is one atomic action.                              *)
(*                                                                         *)
(* Memory accesses happen in program order and one access of an index is   *)
(* atomic: the TX indices are single bytes, and the RX indices are ints    *)
(* whose high byte is always 0, so a torn access yields the old or the     *)
(* new value.                                                              *)
(***************************************************************************)
EXTENDS Integers, Naturals, Sequences, FiniteSets, TLC

(* Ring sizes.  serial.c has RX_BUFFER_SIZE 64 (256 on the ATmega328P) and *)
(* TX_BUFFER_SIZE 16; the model is checked on scaled-down rings.           *)
RX_BUFFER_SIZE == 3
TX_BUFFER_SIZE == 3

(* Number of foreground calls and of received bytes in one behaviour, and  *)
(* number of calls in a behaviour that only calls serialWrite.             *)
MaxCalls == 3
MaxRx == 3
MaxWrites == 5

(* The print functions: long and unsigned long are 32 bits wide in the     *)
(* program; the model checks them on LongBits wide words.  Arguments are   *)
(* drawn from -MaxN..MaxN and the extremes of the word.                    *)
LongBits == 16
MaxN == 40

(* Bytes the application writes and the line delivers.  Both buffers are   *)
(* statically allocated, hence zero filled: 0 marks a never written slot.  *)
Byte == {1, 2}

(* Return value of serialRead when it does not deliver a byte.             *)
EMPTY == -1

VARIABLES
    rx_buffer,        \* unsigned char rx_buffer[RX_BUFFER_SIZE]
    rx_buffer_head,   \* int rx_buffer_head
    rx_buffer_tail,   \* int rx_buffer_tail
    tx_buffer,        \* unsigned char tx_buffer[TX_BUFFER_SIZE]
    tx_buffer_head,   \* unsigned char tx_buffer_head
    tx_buffer_tail,   \* volatile unsigned char tx_buffer_tail
    UDRE0,            \* UCSR0A bit: the transmit data register is empty
    UDRIE0,           \* UCSR0B bit: data register empty interrupt enabled
    SREG_I,           \* global interrupt enable flag
    pc,               \* position of the foreground
    op,               \* the foreground function being, or last, executed
    c,                \* serialWrite: parameter c; serialRead: local c
    newhead,          \* serialWrite: local newhead
    tmp,              \* serialFlush: the value loaded from rx_buffer_tail
    ret,              \* value returned by the last serialRead/serialAnyAvailable
    submitted,        \* history: bytes passed to serialWrite, in call order
    emitted,          \* history: bytes written to UDR0, in order
    accepted,         \* history: bytes stored by USART_RX_vect, in order
    reads,            \* history: values other than EMPTY returned by serialRead
    tx_tag,           \* history: per TX slot, the serialWrite call whose byte it holds (0: none)
    done,             \* history: the serialWrite calls whose byte was written to UDR0
    w_empty,          \* history: the TX buffer was empty when the last serialWrite was called
    burst,            \* history: bytes received since the foreground left the RX buffer empty
    burstOpen,        \* history: burst is being recorded
    acc_at_call,      \* history: Len(accepted) when the current foreground call began
    rd_avail,         \* history: serialAnyAvailable() when the last serialRead was called
    rd_tail,          \* history: rx_buffer_tail when the last serialRead was called
    rd_byte,          \* history: rx_buffer[rx_buffer_tail] when the last serialRead was called
    flushed,          \* history: serialFlush has been called
    rx_tag,           \* history: per RX slot, it holds a stored byte neither read nor flushed
    ncalls,           \* history: number of foreground calls
    nrx,              \* history: number of receive-complete events
    p_pc,             \* position in the print functions
    p_ret,            \* where the outermost print function continues after printInteger
    p_fn,             \* history: the print function called
    p_arg,            \* history: its first argument
    pib_n,            \* printIntegerInBase: unsigned long n
    pib_base,         \* printIntegerInBase: unsigned long base
    pib_buf,          \* printIntegerInBase: unsigned char buf[8 * sizeof(long)]
    pib_i,            \* printIntegerInBase: unsigned long i
    pi_n,             \* printInteger: long n
    integer_part,     \* printFloat: double integer_part
    fractional_part,  \* printFloat: double fractional_part, in units of 1/FloatScale
    printed           \* history: bytes passed to printByte, in order

(* The behaviours explored: at most MaxCalls foreground calls of any kind  *)
(* interleaved with at most MaxRx received bytes, and, beyond that, runs   *)
(* of up to MaxWrites serialWrite calls with nothing else going on.        *)
CanCall == ncalls < MaxCalls
CanWrite ==
    \/ ncalls < MaxCalls
    \/ (nrx = 0 /\ Len(submitted) = ncalls /\ ncalls < MaxWrites)
CanReceive == nrx < MaxRx /\ ncalls <= MaxCalls

rxvars == <<rx_buffer, rx_buffer_head, rx_buffer_tail>>
txvars == <<tx_buffer, tx_buffer_head, tx_buffer_tail>>
hwvars == <<UDRE0, UDRIE0, SREG_I>>
locals == <<c, newhead, tmp>>
rdhist == <<rd_avail, rd_tail, rd_byte>>
rxhist == <<accepted, reads, burst, burstOpen, acc_at_call, rdhist, flushed,
            rx_tag, nrx>>
txhist == <<submitted, emitted, tx_tag, done, w_empty>>
pibvars == <<pib_n, pib_base, pib_buf, pib_i>>
prvars == <<p_pc, p_ret, p_fn, p_arg, pibvars, pi_n, integer_part,
            fractional_part, printed>>
drvvars == <<rxvars, txvars, hwvars, locals, rxhist, txhist, pc, op, ret,
             ncalls>>
vars == <<rx_buffer, rx_buffer_head, rx_buffer_tail,
          tx_buffer, tx_buffer_head, tx_buffer_tail,
          UDRE0, UDRIE0, SREG_I, pc, op, c, newhead, tmp, ret,
          submitted, emitted, accepted, reads, tx_tag, done, w_empty,
          burst, burstOpen, acc_at_call, rd_avail, rd_tail, rd_byte,
          flushed, rx_tag, ncalls, nrx, prvars>>

(* The state after static initialisation and beginSerial: zero filled      *)
(* buffers, indices 0, receive-complete interrupt enabled, data register   *)
(* empty interrupt disabled, data register empty.  Whether interrupts are  *)
(* globally enabled is decided by the caller, outside this file.           *)
Init ==
    /\ rx_buffer = [i \in 0..(RX_BUFFER_SIZE - 1) |-> 0]
    /\ rx_buffer_head = 0
    /\ rx_buffer_tail = 0
    /\ tx_buffer = [i \in 0..(TX_BUFFER_SIZE - 1) |-> 0]
    /\ tx_buffer_head = 0
    /\ tx_buffer_tail = 0
    /\ UDRE0 = TRUE
    /\ UDRIE0 = FALSE
    /\ SREG_I \in BOOLEAN
    /\ pc = "idle"
    /\ op = "none"
    /\ c = 0
    /\ newhead = 0
    /\ tmp = 0
    /\ ret = 0
    /\ submitted = <<>>
    /\ emitted = <<>>
    /\ accepted = <<>>
    /\ reads = <<>>
    /\ tx_tag = [i \in 0..(TX_BUFFER_SIZE - 1) |-> 0]
    /\ done = {}
    /\ w_empty = TRUE
    /\ burst = <<>>
    /\ burstOpen = TRUE
    /\ acc_at_call = 0
    /\ rd_avail = FALSE
    /\ rd_tail = 0
    /\ rd_byte = 0
    /\ flushed = FALSE
    /\ rx_tag = [i \in 0..(RX_BUFFER_SIZE - 1) |-> FALSE]
    /\ ncalls = 0
    /\ nrx = 0
    /\ p_pc = "idle"
    /\ p_ret = "done"
    /\ p_fn = "none"
    /\ p_arg = 0
    /\ pib_n = 0
    /\ pib_base = 0
    /\ pib_buf = [k \in 0..(LongBits - 1) |-> 0]
    /\ pib_i = 0
    /\ pi_n = 0
    /\ integer_part = 0
    /\ fractional_part = 0
    /\ printed = <<>>

-----------------------------------------------------------------------------
(* serialWrite                                                             *)

(* Line 70, first operand: UCSR0A is read.  With the data register not     *)
(* empty the || short-circuits into the buffered branch, where newhead is  *)
(* computed from tx_buffer_head, which only the foreground writes.         *)
serialWrite_begin(b) ==
    /\ pc = "idle"
    /\ CanWrite
    /\ ncalls' = ncalls + 1
    /\ op' = "serialWrite"
    /\ c' = b
    /\ submitted' = Append(submitted, b)
    /\ w_empty' = (tx_buffer_head = tx_buffer_tail)
    /\ IF ~UDRE0
         THEN /\ newhead' = (tx_buffer_head + 1) % TX_BUFFER_SIZE
              /\ pc' = "w_wait"
         ELSE /\ newhead' = newhead
              /\ pc' = "w_cmp"
    /\ UNCHANGED <<rxvars, txvars, hwvars, tmp, ret, emitted, tx_tag, done, rxhist>>
    /\ UNCHANGED prvars

(* Line 70, second operand: tx_buffer_tail is read and compared.           *)
serialWrite_cmp ==
    /\ pc = "w_cmp"
    /\ IF tx_buffer_head # tx_buffer_tail
         THEN /\ newhead' = (tx_buffer_head + 1) % TX_BUFFER_SIZE
              /\ pc' = "w_wait"
         ELSE /\ newhead' = newhead
              /\ pc' = "w_fast"
    /\ UNCHANGED <<rxvars, txvars, hwvars, op, c, tmp, ret, txhist, rxhist, ncalls>>
    /\ UNCHANGED prvars

(* Line 81: one evaluation of the loop condition; the loop is left when    *)
(* newhead differs from tx_buffer_tail.                                    *)
serialWrite_wait ==
    /\ pc = "w_wait"
    /\ newhead # tx_buffer_tail
    /\ pc' = "w_store"
    /\ UNCHANGED <<rxvars, txvars, hwvars, op, locals, ret, txhist, rxhist, ncalls>>
    /\ UNCHANGED prvars

(* Line 83.                                                                *)
serialWrite_store ==
    /\ pc = "w_store"
    /\ tx_buffer' = [tx_buffer EXCEPT ![tx_buffer_head] = c]
    /\ tx_tag' = [tx_tag EXCEPT ![tx_buffer_head] = Len(submitted)]
    /\ pc' = "w_head"
    /\ UNCHANGED <<rxvars, tx_buffer_head, tx_buffer_tail, hwvars, op, locals, ret,
                   submitted, emitted, done, w_empty, rxhist, ncalls>>
    /\ UNCHANGED prvars

(* Line 84.                                                                *)
serialWrite_head ==
    /\ pc = "w_head"
    /\ tx_buffer_head' = newhead
    /\ pc' = "w_sei"
    /\ UNCHANGED <<rxvars, tx_buffer, tx_buffer_tail, hwvars, op, locals, ret,
                   txhist, rxhist, ncalls>>
    /\ UNCHANGED prvars

(* Line 87.                                                                *)
serialWrite_sei ==
    /\ pc = "w_sei"
    /\ SREG_I' = TRUE
    /\ pc' = "w_arm"
    /\ UNCHANGED <<rxvars, txvars, UDRE0, UDRIE0, op, locals, ret, txhist, rxhist, ncalls>>
    /\ UNCHANGED prvars

(* Mutation of serialWrite_arm: the interrupt is not enabled.              *)
serialWrite_arm_omitted ==
    /\ pc = "w_arm"
    /\ pc' = "idle"
    /\ UNCHANGED <<rxvars, txvars, hwvars, op, locals, ret, txhist, rxhist, ncalls>>
    /\ UNCHANGED prvars

(* Line 88.  The read-modify-write of UCSR0B sets the bit whatever a       *)
(* handler wrote to it between the read and the write.                     *)
serialWrite_arm ==
    /\ pc = "w_arm"
    /\ UDRIE0' = TRUE
    /\ pc' = "idle"
    /\ UNCHANGED <<rxvars, txvars, UDRE0, SREG_I, op, locals, ret, txhist, rxhist, ncalls>>
    /\ UNCHANGED prvars

(* Line 92: the byte goes straight to the data register, which is then     *)
(* occupied.                                                               *)
serialWrite_fast ==
    /\ pc = "w_fast"
    /\ emitted' = Append(emitted, c)
    /\ done' = done \cup {Len(submitted)}
    /\ UDRE0' = FALSE
    /\ pc' = "idle"
    /\ UNCHANGED <<rxvars, txvars, UDRIE0, SREG_I, op, locals, ret,
                   submitted, tx_tag, w_empty, rxhist, ncalls>>
    /\ UNCHANGED prvars

(* The transmitter moves the data register into its shift register and     *)
(* raises UDRE0 again.                                                     *)
DataRegisterEmpty ==
    /\ ~UDRE0
    /\ UDRE0' = TRUE
    /\ UNCHANGED <<rxvars, txvars, UDRIE0, SREG_I, pc, op, locals, ret,
                   txhist, rxhist, ncalls>>
    /\ UNCHANGED prvars

(* Mutation of USART_UDRE_vect: the interrupt is disabled after every byte, *)
(* whether or not the buffer has become empty.                             *)
USART_UDRE_vect_alwaysDisarm ==
    /\ SREG_I /\ UDRIE0 /\ UDRE0
    /\ LET tail == tx_buffer_tail
           ntail == (tail + 1) % TX_BUFFER_SIZE
       IN /\ emitted' = Append(emitted, tx_buffer[tail])
          /\ done' = IF tx_tag[tail] # 0 THEN done \cup {tx_tag[tail]} ELSE done
          /\ tx_tag' = [tx_tag EXCEPT ![tail] = 0]
          /\ UDRE0' = FALSE
          /\ UDRIE0' = FALSE
          /\ tx_buffer_tail' = ntail
    /\ UNCHANGED <<rxvars, tx_buffer, tx_buffer_head, SREG_I, pc, op, locals, ret,
                   submitted, w_empty, rxhist, ncalls>>
    /\ UNCHANGED prvars

(* SIGNAL(USART_UDRE_vect): runs when the data register is empty, its      *)
(* interrupt is enabled and interrupts are globally enabled.               *)
USART_UDRE_vect ==
    /\ SREG_I /\ UDRIE0 /\ UDRE0
    /\ LET tail == tx_buffer_tail
           ntail == (tail + 1) % TX_BUFFER_SIZE
       IN /\ emitted' = Append(emitted, tx_buffer[tail])
          /\ done' = IF tx_tag[tail] # 0 THEN done \cup {tx_tag[tail]} ELSE done
          /\ tx_tag' = [tx_tag EXCEPT ![tail] = 0]
          /\ UDRE0' = FALSE
          /\ UDRIE0' = IF ntail = tx_buffer_head THEN FALSE ELSE UDRIE0
          /\ tx_buffer_tail' = ntail
    /\ UNCHANGED <<rxvars, tx_buffer, tx_buffer_head, SREG_I, pc, op, locals, ret,
                   submitted, w_empty, rxhist, ncalls>>
    /\ UNCHANGED prvars

-----------------------------------------------------------------------------
(* The receive side                                                        *)

(* serialAnyAvailable, called by the application.                          *)
serialAnyAvailable ==
    /\ pc = "idle"
    /\ CanCall
    /\ ncalls' = ncalls + 1
    /\ op' = "serialAnyAvailable"
    /\ ret' = IF rx_buffer_head # rx_buffer_tail THEN 1 ELSE 0
    /\ acc_at_call' = Len(accepted)
    /\ UNCHANGED <<rxvars, txvars, hwvars, pc, locals, txhist,
                   accepted, reads, burst, burstOpen, rdhist, flushed, nrx>>
    /\ UNCHANGED rx_tag
    /\ UNCHANGED prvars

(* serialRead, line 128: the call of serialAnyAvailable and the branch on  *)
(* its result; line 129 returns.                                           *)
serialRead_begin ==
    /\ pc = "idle"
    /\ CanCall
    /\ ncalls' = ncalls + 1
    /\ op' = "serialRead"
    /\ acc_at_call' = Len(accepted)
    /\ burst' = <<>>
    /\ burstOpen' = FALSE
    /\ rd_avail' = (rx_buffer_head # rx_buffer_tail)
    /\ rd_tail' = rx_buffer_tail
    /\ rd_byte' = rx_buffer[rx_buffer_tail]
    /\ IF rx_buffer_head # rx_buffer_tail
         THEN /\ ret' = EMPTY
              /\ pc' = "idle"
         ELSE /\ ret' = ret
              /\ pc' = "r_fetch"
    /\ UNCHANGED <<rxvars, txvars, hwvars, locals, txhist, accepted, reads, flushed, nrx>>
    /\ UNCHANGED rx_tag
    /\ UNCHANGED prvars

(* Line 131.                                                               *)
serialRead_fetch ==
    /\ pc = "r_fetch"
    /\ c' = rx_buffer[rx_buffer_tail]
    /\ pc' = "r_advance"
    /\ UNCHANGED <<rxvars, txvars, hwvars, op, newhead, tmp, ret, txhist, rxhist, ncalls>>
    /\ UNCHANGED prvars

(* Lines 132-133.                                                          *)
serialRead_advance ==
    /\ pc = "r_advance"
    /\ rx_buffer_tail' = (rx_buffer_tail + 1) % RX_BUFFER_SIZE
    /\ ret' = c
    /\ reads' = Append(reads, c)
    /\ rx_tag' = [rx_tag EXCEPT ![rx_buffer_tail] = FALSE]
    /\ burst' = <<>>
    /\ burstOpen' = (rx_buffer_head = rx_buffer_tail')
    /\ pc' = "idle"
    /\ UNCHANGED <<rx_buffer, rx_buffer_head, txvars, hwvars, op, locals, txhist,
                   accepted, acc_at_call, rdhist, flushed, nrx, ncalls>>
    /\ UNCHANGED prvars

(* Mutation of serialFlush_begin: rx_buffer_head is loaded instead of      *)
(* rx_buffer_tail.                                                         *)
serialFlush_begin_loadsHead ==
    /\ pc = "idle"
    /\ CanCall
    /\ ncalls' = ncalls + 1
    /\ op' = "serialFlush"
    /\ acc_at_call' = Len(accepted)
    /\ flushed' = TRUE
    /\ burst' = <<>>
    /\ burstOpen' = FALSE
    /\ tmp' = rx_buffer_head
    /\ pc' = "f_store"
    /\ UNCHANGED <<rxvars, txvars, hwvars, c, newhead, ret, txhist, accepted, reads,
                   rdhist, nrx>>
    /\ UNCHANGED rx_tag
    /\ UNCHANGED prvars

(* serialFlush, line 144, right-hand side: rx_buffer_tail is loaded.       *)
serialFlush_begin ==
    /\ pc = "idle"
    /\ CanCall
    /\ ncalls' = ncalls + 1
    /\ op' = "serialFlush"
    /\ acc_at_call' = Len(accepted)
    /\ flushed' = TRUE
    /\ burst' = <<>>
    /\ burstOpen' = FALSE
    /\ tmp' = rx_buffer_tail
    /\ pc' = "f_store"
    /\ UNCHANGED <<rxvars, txvars, hwvars, c, newhead, ret, txhist, accepted, reads,
                   rdhist, nrx>>
    /\ UNCHANGED rx_tag
    /\ UNCHANGED prvars

(* Line 144, left-hand side: the loaded value is stored to rx_buffer_head. *)
serialFlush_store ==
    /\ pc = "f_store"
    /\ rx_buffer_head' = tmp
    /\ rx_tag' = [i \in 0..(RX_BUFFER_SIZE - 1) |-> FALSE]
    /\ burst' = <<>>
    /\ burstOpen' = (rx_buffer_head' = rx_buffer_tail)
    /\ pc' = "idle"
    /\ UNCHANGED <<rx_buffer, rx_buffer_tail, txvars, hwvars, op, locals, ret, txhist,
                   accepted, reads, acc_at_call, rdhist, flushed, nrx, ncalls>>
    /\ UNCHANGED prvars

(* Mutation of USART_RX_vect: the byte is stored without the test for a    *)
(* full buffer.                                                            *)
USART_RX_vect_noFullTest(b) ==
    /\ SREG_I
    /\ CanReceive
    /\ nrx' = nrx + 1
    /\ burst' = IF burstOpen THEN Append(burst, b) ELSE burst
    /\ rx_buffer' = [rx_buffer EXCEPT ![rx_buffer_head] = b]
    /\ rx_buffer_head' = (rx_buffer_head + 1) % RX_BUFFER_SIZE
    /\ accepted' = Append(accepted, b)
    /\ rx_tag' = [rx_tag EXCEPT ![rx_buffer_head] = TRUE]
    /\ UNCHANGED <<rx_buffer_tail, txvars, hwvars, pc, op, locals, ret, txhist,
                   reads, burstOpen, acc_at_call, rdhist, flushed, ncalls>>
    /\ UNCHANGED prvars

(* SIGNAL(USART_RX_vect) with byte b in UDR0.                              *)
USART_RX_vect(b) ==
    /\ SREG_I
    /\ CanReceive
    /\ nrx' = nrx + 1
    /\ burst' = IF burstOpen THEN Append(burst, b) ELSE burst
    /\ LET i == (rx_buffer_head + 1) % RX_BUFFER_SIZE
       IN IF i # rx_buffer_tail
            THEN /\ rx_buffer' = [rx_buffer EXCEPT ![rx_buffer_head] = b]
                 /\ rx_buffer_head' = i
                 /\ accepted' = Append(accepted, b)
                 /\ rx_tag' = [rx_tag EXCEPT ![rx_buffer_head] = TRUE]
            ELSE UNCHANGED <<rx_buffer, rx_buffer_head, accepted, rx_tag>>
    /\ UNCHANGED <<rx_buffer_tail, txvars, hwvars, pc, op, locals, ret, txhist,
                   reads, burstOpen, acc_at_call, rdhist, flushed, ncalls>>
    /\ UNCHANGED prvars

-----------------------------------------------------------------------------
(* The transmit side: serialWrite, the transmitter and the drain handler.  *)
TxNext ==
    \/ \E b \in Byte : serialWrite_begin(b)
    \/ serialWrite_cmp
    \/ serialWrite_wait
    \/ serialWrite_store
    \/ serialWrite_head
    \/ serialWrite_sei
    \/ serialWrite_arm
    \/ serialWrite_fast
    \/ DataRegisterEmpty
    \/ USART_UDRE_vect

(* The receive side: serialAnyAvailable, serialRead, serialFlush and the   *)
(* receive handler.                                                        *)
RxNext ==
    \/ serialAnyAvailable
    \/ serialRead_begin
    \/ serialRead_fetch
    \/ serialRead_advance
    \/ serialFlush_begin
    \/ serialFlush_store
    \/ \E b \in Byte : USART_RX_vect(b)

Next == TxNext \/ RxNext

Spec == Init /\ [][Next]_vars

(* The steps of a serialWrite call that is under way.                      *)
serialWrite_run ==
    \/ serialWrite_cmp
    \/ serialWrite_wait
    \/ serialWrite_store
    \/ serialWrite_head
    \/ serialWrite_sei
    \/ serialWrite_arm
    \/ serialWrite_fast

(* The transmit side on its own under fair servicing: the processor keeps  *)
(* executing the serialWrite call that is under way, the transmitter       *)
(* empties an occupied data register, and an enabled, pending data         *)
(* register empty interrupt is taken.  The receive side shares only the    *)
(* foreground's position with the transmit side.                           *)
TxFairSpec ==
    /\ Init
    /\ [][TxNext]_vars
    /\ WF_vars(serialWrite_run)
    /\ WF_vars(DataRegisterEmpty)
    /\ WF_vars(USART_UDRE_vect)

-----------------------------------------------------------------------------
(* The print functions                                                     *)

(* unsigned long and long hold LongBits bits; a conversion or an           *)
(* arithmetic result is reduced into the range of its type, the negation   *)
(* of the least long being the wrapping negation the target performs.      *)
ToUnsignedLong(x) == x % (2 ^ LongBits)
ToLong(x) ==
    IF ToUnsignedLong(x) >= 2 ^ (LongBits - 1)
    THEN ToUnsignedLong(x) - 2 ^ LongBits
    ELSE ToUnsignedLong(x)
ToUnsignedChar(x) == x % 256

(* A double is modelled as an exact multiple of 1/FloatScale.  modf splits *)
(* it into an integral and a fractional part that both carry its sign;     *)
(* round rounds to the nearest integer, halfway cases away from zero.      *)
FloatScale == 10 ^ 5
Abs(x) == IF x < 0 THEN -x ELSE x
Sign(x) == IF x < 0 THEN -1 ELSE 1
modf_integer(m) == Sign(m) * (Abs(m) \div FloatScale)
modf_fraction(m) == Sign(m) * (Abs(m) % FloatScale)
round(num, den) == Sign(num) * ((2 * Abs(num) + den) \div (2 * den))

(* printByte(c): the byte is handed to serialWrite, whose own steps are    *)
(* the transmit side above; here the call is recorded by its argument.     *)
printByte(ch) == printed' = Append(printed, ToUnsignedChar(ch))

(* Lines 207-209: the character printed for the digit d, in ASCII.         *)
DigitChar_noOffset(d) == IF d < 10 THEN 48 + d ELSE 65 + d
DigitChar(d) == IF d < 10 THEN 48 + d ELSE 65 + d - 10

(* Entry of printIntegerInBase(k, b): the arguments are converted to       *)
(* unsigned long, i = 0.                                                   *)
printIntegerInBase_enter(k, b) ==
    /\ pib_n' = ToUnsignedLong(k)
    /\ pib_base' = ToUnsignedLong(b)
    /\ pib_i' = 0
    /\ pib_buf' = pib_buf
    /\ p_pc' = "pib_test"

(* The application calls printIntegerInBase(k, b).                         *)
printIntegerInBase_call(k, b) ==
    /\ p_pc = "idle"
    /\ p_fn' = "printIntegerInBase"
    /\ p_arg' = k
    /\ p_ret' = "done"
    /\ printIntegerInBase_enter(k, b)
    /\ UNCHANGED <<pi_n, integer_part, fractional_part, printed>>
    /\ UNCHANGED drvvars

(* Lines 196-199: n == 0 prints '0' and returns.                           *)
printIntegerInBase_zero ==
    /\ p_pc = "pib_test"
    /\ pib_n = 0
    /\ printByte(48)
    /\ p_pc' = p_ret
    /\ UNCHANGED <<p_ret, p_fn, p_arg, pibvars, pi_n, integer_part,
                   fractional_part>>
    /\ UNCHANGED drvvars

(* Lines 201-204: one round of the loop that stores the digits, least      *)
(* significant first.                                                      *)
printIntegerInBase_div ==
    /\ p_pc \in {"pib_test", "pib_div"}
    /\ pib_n > 0
    /\ pib_buf' = [pib_buf EXCEPT ![pib_i] = ToUnsignedChar(pib_n % pib_base)]
    /\ pib_i' = pib_i + 1
    /\ pib_n' = pib_n \div pib_base
    /\ p_pc' = "pib_div"
    /\ UNCHANGED <<p_ret, p_fn, p_arg, pib_base, pi_n, integer_part,
                   fractional_part, printed>>
    /\ UNCHANGED drvvars

(* Lines 206-209: one round of the loop that prints the stored digits,     *)
(* the last stored first.                                                  *)
printIntegerInBase_print ==
    /\ p_pc \in {"pib_div", "pib_print"}
    /\ pib_n = 0
    /\ pib_i > 0
    /\ printByte(DigitChar(pib_buf[pib_i - 1]))
    /\ pib_i' = pib_i - 1
    /\ p_pc' = "pib_print"
    /\ UNCHANGED <<p_ret, p_fn, p_arg, pib_n, pib_base, pib_buf, pi_n,
                   integer_part, fractional_part>>
    /\ UNCHANGED drvvars

(* Line 206, i == 0: printIntegerInBase returns, and so does the           *)
(* printInteger that called it.                                            *)
printIntegerInBase_return ==
    /\ p_pc = "pib_print"
    /\ pib_i = 0
    /\ p_pc' = p_ret
    /\ UNCHANGED <<p_ret, p_fn, p_arg, pibvars, pi_n, integer_part,
                   fractional_part, printed>>
    /\ UNCHANGED drvvars

(* The application calls printInteger(k).                                  *)
printInteger_call(k) ==
    /\ p_pc = "idle"
    /\ p_fn' = "printInteger"
    /\ p_arg' = k
    /\ p_ret' = "done"
    /\ pi_n' = ToLong(k)
    /\ p_pc' = "pi_test"
    /\ UNCHANGED <<pibvars, integer_part, fractional_part, printed>>
    /\ UNCHANGED drvvars

(* Lines 214-217: a negative n prints '-' and is negated.                  *)
printInteger_negative ==
    /\ p_pc = "pi_test"
    /\ pi_n < 0
    /\ printByte(45)
    /\ pi_n' = ToLong(-pi_n)
    /\ p_pc' = "pi_print"
    /\ UNCHANGED <<p_ret, p_fn, p_arg, pibvars, integer_part,
                   fractional_part>>
    /\ UNCHANGED drvvars

(* Line 219: printIntegerInBase(n, 10).                                    *)
printInteger_print ==
    /\ \/ p_pc = "pi_test" /\ pi_n >= 0
       \/ p_pc = "pi_print"
    /\ printIntegerInBase_enter(pi_n, 10)
    /\ UNCHANGED <<p_ret, p_fn, p_arg, pi_n, integer_part, fractional_part,
                   printed>>
    /\ UNCHANGED drvvars

(* The application calls printFloat(m / FloatScale).  Line 225: modf.      *)
printFloat_call(m) ==
    /\ p_pc = "idle"
    /\ p_fn' = "printFloat"
    /\ p_arg' = m
    /\ integer_part' = modf_integer(m)
    /\ fractional_part' = modf_fraction(m)
    /\ p_pc' = "pf_int"
    /\ UNCHANGED <<p_ret, pibvars, pi_n, printed>>
    /\ UNCHANGED drvvars

(* Line 226: printInteger(integer_part).                                   *)
printFloat_integer ==
    /\ p_pc = "pf_int"
    /\ pi_n' = ToLong(integer_part)
    /\ p_ret' = "pf_dot"
    /\ p_pc' = "pi_test"
    /\ UNCHANGED <<p_fn, p_arg, pibvars, integer_part, fractional_part,
                   printed>>
    /\ UNCHANGED drvvars

(* Line 227: printByte('.').                                               *)
printFloat_dot ==
    /\ p_pc = "pf_dot"
    /\ printByte(46)
    /\ p_pc' = "pf_frac"
    /\ UNCHANGED <<p_ret, p_fn, p_arg, pibvars, pi_n, integer_part,
                   fractional_part>>
    /\ UNCHANGED drvvars

(* Line 228: printInteger(round(fractional_part*1000)).                    *)
printFloat_fraction ==
    /\ p_pc = "pf_frac"
    /\ pi_n' = ToLong(round(fractional_part * 1000, FloatScale))
    /\ p_ret' = "done"
    /\ p_pc' = "pi_test"
    /\ UNCHANGED <<p_fn, p_arg, pibvars, integer_part, fractional_part,
                   printed>>
    /\ UNCHANGED drvvars

(* The arguments the print functions are called with.                      *)
Bases == 2..36
UnsignedArgs == (0..MaxN) \cup {255, 2 ^ LongBits - 1}
SignedArgs ==
    (-MaxN..MaxN) \cup {-42, -(2 ^ (LongBits - 1)), 2 ^ (LongBits - 1) - 1}
FloatArgs ==
    {250 * k : k \in -MaxN..MaxN}
        \cup {314159, 305000, 299960, -150000, -50000, 1200040}

PrintNext ==
    \/ \E k \in UnsignedArgs, b \in Bases : printIntegerInBase_call(k, b)
    \/ printIntegerInBase_zero
    \/ printIntegerInBase_div
    \/ printIntegerInBase_print
    \/ printIntegerInBase_return
    \/ \E k \in SignedArgs : printInteger_call(k)
    \/ printInteger_negative
    \/ printInteger_print
    \/ \E m \in FloatArgs : printFloat_call(m)
    \/ printFloat_integer
    \/ printFloat_dot
    \/ printFloat_fraction

(* One call of a print function, with the serial driver at rest.           *)
PrintSpec ==
    /\ Init
    /\ [][PrintNext]_vars

-----------------------------------------------------------------------------
(* Helpers of the properties                                               *)

IsPrefix(s, t) ==
    /\ Len(s) <= Len(t)
    /\ \A i \in 1..Len(s) : s[i] = t[i]

Min(a, b) == IF a < b THEN a ELSE b

(* The slots from index from up to, not including, index to, in ring order. *)
RECURSIVE Ring(_, _, _, _)
Ring(buf, from, to, size) ==
    IF from = to THEN <<>>
    ELSE <<buf[from]>> \o Ring(buf, (from + 1) % size, to, size)

RxContents == Ring(rx_buffer, rx_buffer_tail, rx_buffer_head, RX_BUFFER_SIZE)
TxContents == Ring(tx_buffer, tx_buffer_tail, tx_buffer_head, TX_BUFFER_SIZE)

-----------------------------------------------------------------------------
(* C1: the bytes written to the data register, by the fast path and by    *)
(* the drain handler together, are at every moment a prefix of the bytes   *)
(* submitted to serialWrite.                                               *)
C1_EmittedPrefixOfSubmitted == IsPrefix(emitted, submitted)

(* C2: the data register empty interrupt is never enabled while the TX     *)
(* buffer is empty.                                                        *)
C2_NeverArmedWhileEmpty == ~(UDRIE0 /\ tx_buffer_head = tx_buffer_tail)

(* A step of the foreground: it moves pc or begins a call.  The handlers   *)
(* and the transmitter leave both alone.                                   *)
ForegroundStep == pc' # pc \/ ncalls' # ncalls

(* serialRead has returned and nothing was called since.                   *)
ReadReturned == pc = "idle" /\ op = "serialRead"

(* C3: without serialFlush, the values other than EMPTY that serialRead    *)
(* returned are the bytes the receive handler stored, in arrival order,    *)
(* and serialRead returns EMPTY only when every byte stored before the     *)
(* call had been read.                                                     *)
C3_ReadsAreAcceptedInOrder ==
    ~flushed =>
        /\ IsPrefix(reads, accepted)
        /\ (ReadReturned /\ ret = EMPTY) => Len(reads) >= acc_at_call

(* C4: serialRead called with data available returns the byte that was at  *)
(* rx_buffer[rx_buffer_tail] and advances rx_buffer_tail by one modulo     *)
(* RX_BUFFER_SIZE.                                                         *)
C4_ReadSucceedsWhenAvailable ==
    (ReadReturned /\ rd_avail) =>
        /\ ret = rd_byte
        /\ rx_buffer_tail = (rd_tail + 1) % RX_BUFFER_SIZE

(* C5: serialRead called on an empty RX buffer returns EMPTY and leaves    *)
(* rx_buffer_tail where it was.                                            *)
C5_ReadOnEmptyReturnsSentinel ==
    (ReadReturned /\ ~rd_avail) =>
        /\ ret = EMPTY
        /\ rx_buffer_tail = rd_tail

(* C6: of the bytes received into an empty RX buffer with no foreground    *)
(* operation in between, the buffer holds the first RX_BUFFER_SIZE-1 in    *)
(* order; a byte that arrives when the buffer is full changes neither      *)
(* index nor any stored byte; both indices stay in 0..RX_BUFFER_SIZE-1.    *)
C6_OverflowKeepsOldest ==
    /\ [](/\ rx_buffer_head \in 0..(RX_BUFFER_SIZE - 1)
          /\ rx_buffer_tail \in 0..(RX_BUFFER_SIZE - 1)
          /\ burstOpen =>
                RxContents = SubSeq(burst, 1, Min(Len(burst), RX_BUFFER_SIZE - 1)))
    /\ [][(nrx' # nrx /\ (rx_buffer_head + 1) % RX_BUFFER_SIZE = rx_buffer_tail)
             => UNCHANGED <<rx_buffer, rx_buffer_head, rx_buffer_tail>>]_vars

(* RX_BUFFER_SIZE or more bytes arrived into an empty buffer, the first    *)
(* RX_BUFFER_SIZE-1 are held.                                              *)
C6_Witness ==
    /\ burstOpen
    /\ Len(burst) >= RX_BUFFER_SIZE
    /\ Len(RxContents) = RX_BUFFER_SIZE - 1

(* C7: serialAnyAvailable() is false initially and in the state in which   *)
(* serialFlush returns, also when USART_RX_vect ran inside serialFlush.    *)
C7_NotAvailableAfterFlush ==
    /\ rx_buffer_head = rx_buffer_tail
    /\ [][(pc = "f_store" /\ pc' = "idle") => rx_buffer_head' = rx_buffer_tail']_vars

(* serialFlush was called with a byte buffered, the receive handler stored *)
(* another byte between its load and its store, and it has returned.       *)
C7_Witness ==
    /\ pc = "idle" /\ op = "serialFlush"
    /\ ncalls = 1 /\ acc_at_call > 0
    /\ Len(accepted) > acc_at_call
    /\ rx_buffer_head = rx_buffer_tail

C9_SingleWriter ==
    [][IF ForegroundStep
         THEN UNCHANGED <<rx_buffer_head, tx_buffer_tail>>
         ELSE UNCHANGED <<rx_buffer_tail, tx_buffer_head>>]_vars

(* C10: under fair servicing, the byte of every serialWrite call is        *)
(* eventually written to the data register.                                *)
C10_EverySubmittedByteEmitted ==
    \A i \in 1..MaxWrites : (Len(submitted) >= i) ~> (i \in done)

(* No serialWrite call is under way.                                       *)
NoWriteInProgress == pc \in {"idle", "r_fetch", "r_advance", "f_store"}

(* C11: whenever no serialWrite call is under way, a non-empty TX buffer   *)
(* has the data register empty interrupt enabled.                          *)
C11_NonEmptyImpliesArmed ==
    (NoWriteInProgress /\ tx_buffer_head # tx_buffer_tail) => UDRIE0

(* Between calls, after the drain handler has run, bytes are still queued. *)
C11_Witness ==
    /\ pc = "idle"
    /\ tx_buffer_tail # 0
    /\ tx_buffer_head # tx_buffer_tail
    /\ tx_tag[tx_buffer_tail] # 0
    /\ UDRIE0

(* C12: while newhead equals tx_buffer_tail, serialWrite stays in its loop *)
(* and tx_buffer and tx_buffer_head do not change; the byte is stored only *)
(* into a buffer that is not full and into a slot whose byte has been      *)
(* emitted; the store of tx_buffer_head never makes it equal to            *)
(* tx_buffer_tail.                                                         *)
C12_NoStoreIntoFullBuffer ==
    [][/\ (pc = "w_wait" /\ newhead = tx_buffer_tail) =>
             (pc' = "w_wait" /\ UNCHANGED <<tx_buffer, tx_buffer_head>>)
       /\ (pc = "w_store" /\ pc' = "w_head") =>
             (newhead # tx_buffer_tail /\ tx_tag[tx_buffer_head] = 0)
       /\ (pc = "w_head" /\ pc' = "w_sei") =>
             tx_buffer_head' # tx_buffer_tail]_vars

(* serialWrite is in its loop at line 81 and the loop condition holds.     *)
WriteBlocked == pc = "w_wait" /\ newhead = tx_buffer_tail

(* C13: a serialWrite call waiting on a full buffer has the data register  *)
(* empty interrupt enabled and interrupts enabled; at every other point of *)
(* a call the next step can be taken; under fair servicing every call      *)
(* returns.                                                                *)
C13_WriteReturns ==
    /\ [](WriteBlocked => (UDRIE0 /\ SREG_I))
    /\ []((pc # "idle" /\ ~WriteBlocked) => ENABLED serialWrite_run)
    /\ (pc # "idle") ~> (pc = "idle")

(* A call waits on a buffer full of submitted, not yet emitted bytes.       *)
C13_Witness ==
    /\ WriteBlocked
    /\ Len(TxContents) = TX_BUFFER_SIZE - 1
    /\ \A i \in 0..(TX_BUFFER_SIZE - 1) : i # tx_buffer_head => tx_tag[i] # 0
    /\ UDRIE0 /\ SREG_I

(* C14: a serialWrite call that found the data register empty goes to the  *)
(* fast path exactly when the TX buffer was empty at the call; the fast    *)
(* path writes the byte to the data register and leaves tx_buffer, both    *)
(* indices and the interrupt enable as they were at the call, the buffer   *)
(* being empty.                                                            *)
C14_FastPath ==
    [][/\ (pc = "w_cmp" /\ pc' # pc) => (pc' = "w_fast" <=> w_empty)
       /\ (pc = "w_fast" /\ pc' = "idle") =>
             /\ emitted' = Append(emitted, c)
             /\ UNCHANGED <<tx_buffer, tx_buffer_head, tx_buffer_tail, UDRIE0>>
             /\ tx_buffer_head = tx_buffer_tail]_vars


-----------------------------------------------------------------------------
(* The digit characters in order of value: '0'-'9', then 'A'-'Z'.          *)
Alphabet ==
    <<48, 49, 50, 51, 52, 53, 54, 55, 56, 57,
      65, 66, 67, 68, 69, 70, 71, 72, 73, 74, 75, 76, 77,
      78, 79, 80, 81, 82, 83, 84, 85, 86, 87, 88, 89, 90>>

(* The numeral of k >= 0 in base b, most significant digit first, without  *)
(* leading zeros.                                                          *)
RECURSIVE Numeral(_, _)
Numeral(k, b) ==
    IF k < b THEN <<Alphabet[k + 1]>>
    ELSE Append(Numeral(k \div b, b), Alphabet[(k % b) + 1])

(* The print function fn has been called and has returned.                 *)
PrintReturned(fn) == p_pc = "done" /\ p_fn = fn

(* C15: printIntegerInBase(n, base), n >= 0 and base in 2..36, has passed  *)
(* to serialWrite exactly the numeral of n in that base when it returns,   *)
(* and printInteger(n), n < 0, exactly '-' and the decimal numeral of |n|. *)
C15_DigitsOfN ==
    /\ PrintReturned("printIntegerInBase") =>
           printed = Numeral(p_arg, pib_base)
    /\ (PrintReturned("printInteger") /\ p_arg < 0) =>
           printed = <<45>> \o Numeral(-p_arg, 10)

C15_Witness ==
    /\ PrintReturned("printIntegerInBase")
    /\ p_arg = 255
    /\ pib_base = 16
    /\ printed = <<70, 70>>


(* C16: when printFloat(n) returns it has passed to serialWrite the        *)
(* integer part of n as printInteger prints it, then '.', then exactly     *)
(* three decimal digits whose value is the fractional part times 1000,     *)
(* rounded to the nearest integer.                                         *)
C16_ThreeDecimals ==
    PrintReturned("printFloat") =>
        LET dot == Len(printed) - 3
            int == IF integer_part < 0
                   THEN <<45>> \o Numeral(-integer_part, 10)
                   ELSE Numeral(integer_part, 10)
            frac == round(Abs(fractional_part) * 1000, FloatScale)
        IN  /\ dot >= 2
            /\ SubSeq(printed, 1, dot - 1) = int
            /\ printed[dot] = 46
            /\ \A j \in 1..3 : printed[dot + j] \in 48..57
            /\ (printed[dot + 1] - 48) * 100 + (printed[dot + 2] - 48) * 10
                   + (printed[dot + 3] - 48) = frac


(* An execution of the drain handler.                                      *)
DrainStep == tx_buffer_tail' # tx_buffer_tail

(* C17: on the buffered path the data register empty interrupt is enabled  *)
(* only after the byte was stored and tx_buffer_head advanced past it, so  *)
(* the byte is among the slots from tx_buffer_tail up to tx_buffer_head    *)
(* when the interrupt is enabled, and a drain handler execution never      *)
(* reads a slot outside them or a slot that was never written.             *)
C17_ArmAfterStore ==
    [][/\ (pc = "w_arm" /\ pc' = "idle") =>
             /\ tx_buffer_head = newhead
             /\ tx_buffer[(newhead + TX_BUFFER_SIZE - 1) % TX_BUFFER_SIZE] = c
             /\ tx_buffer_head # tx_buffer_tail
       /\ (UDRIE0' /\ ~UDRIE0) => pc = "w_arm"
       /\ DrainStep =>
             /\ tx_buffer_head # tx_buffer_tail
             /\ tx_buffer[tx_buffer_tail] # 0]_vars


(* C18: an execution of the drain handler writes tx_buffer[tx_buffer_tail] *)
(* to the data register, advances tx_buffer_tail by one modulo             *)
(* TX_BUFFER_SIZE, leaves tx_buffer_head and tx_buffer alone and disables  *)
(* its interrupt exactly when the advanced tail equals tx_buffer_head; it  *)
(* runs once per queued byte: only with a byte queued, which it removes.   *)
C18_DrainOncePerByte ==
    [][DrainStep =>
          /\ emitted' = Append(emitted, tx_buffer[tx_buffer_tail])
          /\ tx_buffer_tail' = (tx_buffer_tail + 1) % TX_BUFFER_SIZE
          /\ UNCHANGED <<tx_buffer, tx_buffer_head>>
          /\ ~UDRIE0' <=> (tx_buffer_tail' = tx_buffer_head)
          /\ Len(TxContents) >= 1
          /\ Len(TxContents') = Len(TxContents) - 1]_vars


(* The number of bytes the receive handler stored that serialRead has not  *)
(* returned and serialFlush has not discarded.                             *)
Unread == Cardinality({i \in 0..(RX_BUFFER_SIZE - 1) : rx_tag[i]})

(* A receive-complete event whose byte the handler did not store.          *)
DropStep == nrx' # nrx /\ accepted' = accepted

(* C19: the receive handler drops a byte only when RX_BUFFER_SIZE - 1      *)
(* stored bytes are unread; with fewer, the received byte is stored.       *)
C19_DropOnlyWhenFull ==
    [][DropStep => Unread = RX_BUFFER_SIZE - 1]_vars


(* A call of serialAnyAvailable.                                           *)
AnyAvailableStep == ncalls' # ncalls /\ op' = "serialAnyAvailable"

(* C20: serialAnyAvailable returns true exactly when at least one stored   *)
(* byte is unread, and changes neither the buffers, the indices nor the    *)
(* interrupt flags.                                                        *)
C20_AvailableIffUnread ==
    [][AnyAvailableStep =>
          /\ (ret' # 0) <=> (Unread >= 1)
          /\ UNCHANGED <<rxvars, txvars, hwvars>>]_vars

=============================================================================
